---- MODULE Spec2Model ----
(***************************************************************************)
(* material-manager.py: scans the tree under the working directory for     *)
(* directories holding a diffuse texture D.png and, depending on the mode, *)
(* reports, creates, refreshes or validates the ogre.material script of    *)
(* each such directory.                                                    *)
(*                                                                         *)
(* Text (paths, material names, scripts, printed lines) is modelled by     *)
(* strings, binary file content by sequences of byte values.  The file     *)
(* system is a function from the absolute path of every existing regular   *)
(* file to its content.                                                    *)
(***************************************************************************)
EXTENDS Integers, Sequences, FiniteSets, TLC

VARIABLES tree, fs, pc, mode, queue, out, pre, names, generated,
          lastGenerated

vars == <<tree, fs, pc, mode, queue, out, pre, names, generated,
          lastGenerated>>

\* Longest D.png drawn for the header inspection (the header read is 26 bytes).
MaxFileLen == 27

\* Deepest relative directory path drawn for the name derivation.
MaxSegs == 3

\* Number of bytes has_alpha_diffuse_map reads from D.png.
HeaderLen == 26

\* Offset (0-based) of the PNG colour type byte inspected in the header.
ColourTypeOffset == 25

\* PNG colour type of an RGBA image.
RGBA == 6

\* The working directory the tool is started in (os.getcwd()).
Cwd == "/assets"

modes == {"find-missing", "create-missing", "find-invalid", "refresh"}

----------------------------------------------------------------------------
(* String helpers: the Python string operations the program uses.          *)

\* sub in s
Contains(s, sub) ==
    \E i \in 1..(Len(s) - Len(sub) + 1) : SubSeq(s, i, i + Len(sub) - 1) = sub

StartsWith(s, p) == Len(s) >= Len(p) /\ SubSeq(s, 1, Len(p)) = p

\* s.replace(old, new): one left-to-right pass over non-overlapping occurrences
RECURSIVE Replace(_, _, _)
Replace(s, old, new) ==
    LET occ == {i \in 1..(Len(s) - Len(old) + 1) :
                   SubSeq(s, i, i + Len(old) - 1) = old}
    IN IF occ = {} THEN s
       ELSE LET k == CHOOSE i \in occ : \A j \in occ : i <= j
            IN SubSeq(s, 1, k - 1) \o new
                   \o Replace(SubSeq(s, k + Len(old), Len(s)), old, new)

\* text mode with newline=None: "\r\n" and a lone "\r" are read as "\n"
UniversalNewlines(s) == Replace(Replace(s, "\r\n", "\n"), "\r", "\n")

\* the text s cut after each "\n"
RECURSIVE SplitLines(_)
SplitLines(s) ==
    IF s = "" THEN <<>>
    ELSE LET nl == {i \in 1..Len(s) : SubSeq(s, i, i) = "\n"}
         IN IF nl = {} THEN <<s>>
            ELSE LET k == CHOOSE i \in nl : \A j \in nl : i <= j
                 IN <<SubSeq(s, 1, k)>> \o SplitLines(SubSeq(s, k + 1, Len(s)))

\* iteration over a file opened in text mode: the lines, each ending in "\n"
\* whatever line break the file holds
FileLines(s) == SplitLines(UniversalNewlines(s))

\* os.path.join(a, b) for a relative b
Join(a, b) == a \o "/" \o b

\* os.path.relpath(path, start) for start itself or a path below start
RelPath(path, start) ==
    IF path = start THEN "." ELSE SubSeq(path, Len(start) + 2, Len(path))

\* os.path.dirname(path)
DirName(path) ==
    LET sl == {i \in 1..Len(path) : SubSeq(path, i, i) = "/"}
        k  == CHOOSE i \in sl : \A j \in sl : j <= i
    IN SubSeq(path, 1, k - 1)

\* os.path.isfile(path)
IsFile(f, path) == path \in DOMAIN f

\* open(path, 'w'); write(content)
WriteFile(f, path, content) ==
    [p \in DOMAIN f \cup {path} |-> IF p = path THEN content ELSE f[p]]

\* os.remove(path)
RemoveFile(f, path) == [p \in DOMAIN f \ {path} |-> f[p]]

----------------------------------------------------------------------------
(* string.Template                                                         *)

IdStart == {"_", "a", "b", "c", "d", "e", "f", "g", "h", "i", "j", "k", "l",
            "m", "n", "o", "p", "q", "r", "s", "t", "u", "v", "w", "x", "y",
            "z", "A", "B", "C", "D", "E", "F", "G", "H", "I", "J", "K", "L",
            "M", "N", "O", "P", "Q", "R", "S", "T", "U", "V", "W", "X", "Y",
            "Z"}

IdChars == IdStart \cup {"0", "1", "2", "3", "4", "5", "6", "7", "8", "9"}

\* length of the longest identifier at the start of s
RECURSIVE IdLen(_)
IdLen(s) ==
    IF s # "" /\ SubSeq(s, 1, 1) \in IdChars
    THEN 1 + IdLen(SubSeq(s, 2, Len(s)))
    ELSE 0

\* Template(t).substitute(params): $$ is a dollar sign, $id and ${id} are
\* replaced by params[id]; the inserted values are not scanned again.
RECURSIVE Substitute(_, _)
Substitute(t, params) ==
    IF t = "" THEN ""
    ELSE IF SubSeq(t, 1, 1) # "$"
    THEN LET d  == {i \in 1..Len(t) : SubSeq(t, i, i) = "$"}
             k  == IF d = {} THEN Len(t) + 1
                   ELSE CHOOSE i \in d : \A j \in d : i <= j
         IN SubSeq(t, 1, k - 1) \o Substitute(SubSeq(t, k, Len(t)), params)
    ELSE IF SubSeq(t, 2, 2) = "$"
    THEN "$" \o Substitute(SubSeq(t, 3, Len(t)), params)
    ELSE IF SubSeq(t, 2, 2) = "{"
    THEN LET n == IF SubSeq(t, 3, 3) \in IdStart
                   THEN IdLen(SubSeq(t, 3, Len(t))) ELSE 0
         IN params[SubSeq(t, 3, 2 + n)]
                \o Substitute(SubSeq(t, 4 + n, Len(t)), params)
    ELSE LET n == IF SubSeq(t, 2, 2) \in IdStart
                   THEN IdLen(SubSeq(t, 2, Len(t))) ELSE 0
         IN params[SubSeq(t, 2, 1 + n)]
                \o Substitute(SubSeq(t, 2 + n, Len(t)), params)

----------------------------------------------------------------------------
(* The functions of material-manager.py                                    *)

\* is_valid looking at the first line only
is_valid_FirstLineOnly(f, material_file, material_name) ==
    LET lines == FileLines(f[material_file])
    IN lines # <<>> /\ Contains(lines[1], material_name)

\* is_valid(material_file, material_name)
is_valid(f, material_file, material_name) ==
    LET lines == FileLines(f[material_file])
    IN \E i \in 1..Len(lines) : Contains(lines[i], material_name)

\* has_alpha_diffuse_map inspecting the byte before the colour type
has_alpha_diffuse_map_WrongOffset(f, directory) ==
    LET diffuse_texture_path == Join(directory, "D.png")
    IN IF ~IsFile(f, diffuse_texture_path) THEN FALSE
       ELSE LET data   == f[diffuse_texture_path]
                header == SubSeq(data, 1,
                                 IF Len(data) < HeaderLen THEN Len(data)
                                 ELSE HeaderLen)
            IN IF Len(header) # HeaderLen THEN FALSE
               ELSE header[ColourTypeOffset] = RGBA

\* has_alpha_diffuse_map(directory)
has_alpha_diffuse_map(f, directory) ==
    LET diffuse_texture_path == Join(directory, "D.png")
    IN IF ~IsFile(f, diffuse_texture_path) THEN FALSE
       ELSE LET data   == f[diffuse_texture_path]
                header == SubSeq(data, 1,
                                 IF Len(data) < HeaderLen THEN Len(data)
                                 ELSE HeaderLen)
            IN IF Len(header) # HeaderLen THEN FALSE
               ELSE header[ColourTypeOffset + 1] = RGBA

\* has_normal_map(directory)
has_normal_map(f, directory) == IsFile(f, Join(directory, "N.png"))

\* has_specular_map(directory)
has_specular_map(f, directory) == IsFile(f, Join(directory, "S.png"))

\* the parent material chosen on the specular flag alone
ParentMaterial_SpecularOnly(normal, specular, alpha) ==
    LET base == IF specular THEN "/base/normalmap/specular"
                ELSE IF normal THEN "/base/normalmap"
                ELSE "/base/simple"
    IN IF alpha THEN base \o "/nonculled/alpharejected" ELSE base

\* generate_material: the parent material of the main block
ParentMaterial(normal, specular, alpha) ==
    LET base == IF normal /\ specular THEN "/base/normalmap/specular"
                ELSE IF normal THEN "/base/normalmap"
                ELSE "/base/simple"
    IN IF alpha THEN base \o "/nonculled/alpharejected" ELSE base

\* the template with the specular alias emitted under the normal flag
MaterialTemplate_SpecularUnderNormal(normal, specular, alpha) ==
    "import * from \"resources/ogre/scripts/materials/base.material\"\n"
    \o (IF alpha
        THEN "import * from \"resources/ogre/scripts/programs/DepthShadowmap.material\"\n"
             \o "material ${name}/shadowcaster : Ogre/DepthShadowmap/Caster/Float\n{\n"
             \o "    set_texture_alias DiffuseMap ${reldir}/D.png\n}\n"
        ELSE "")
    \o "material $name : $parent\n{\n"
    \o "    set_texture_alias DiffuseMap ${reldir}/D.png\n"
    \o (IF alpha THEN "    set $$shadow_caster_material ${name}/shadowcaster\n"
        ELSE "")
    \o (IF normal THEN "    set_texture_alias NormalHeightMap ${reldir}/N.png\n"
        ELSE "")
    \o (IF normal THEN "    set_texture_alias SpecularMap ${reldir}/S.png\n"
        ELSE "")
    \o "}"

\* generate_material: the template of the script, before substitution
MaterialTemplate(normal, specular, alpha) ==
    "import * from \"resources/ogre/scripts/materials/base.material\"\n"
    \o (IF alpha
        THEN "import * from \"resources/ogre/scripts/programs/DepthShadowmap.material\"\n"
             \o "material ${name}/shadowcaster : Ogre/DepthShadowmap/Caster/Float\n{\n"
             \o "    set_texture_alias DiffuseMap ${reldir}/D.png\n}\n"
        ELSE "")
    \o "material $name : $parent\n{\n"
    \o "    set_texture_alias DiffuseMap ${reldir}/D.png\n"
    \o (IF alpha THEN "    set $$shadow_caster_material ${name}/shadowcaster\n"
        ELSE "")
    \o (IF normal THEN "    set_texture_alias NormalHeightMap ${reldir}/N.png\n"
        ELSE "")
    \o (IF specular THEN "    set_texture_alias SpecularMap ${reldir}/S.png\n"
        ELSE "")
    \o "}"

\* generate_material: the text written to the material file
MaterialScript(f, directory, material_name) ==
    LET reldir   == RelPath(directory, Cwd)
        specular == has_specular_map(f, directory)
        normal   == has_normal_map(f, directory)
        alpha    == has_alpha_diffuse_map(f, directory)
        params   == [name   |-> material_name,
                     parent |-> ParentMaterial(normal, specular, alpha),
                     reldir |-> reldir]
    IN Substitute(MaterialTemplate(normal, specular, alpha), params)

\* generate_material(directory, material_file, material_name): the file
\* system and the printed lines after the call
generate_material(f, o, directory, material_file, material_name) ==
    [fs  |-> WriteFile(f, material_file,
                       MaterialScript(f, directory, material_name)),
     out |-> Append(o, "---- Generating material file " \o material_file)]

\* the material name without the removal of 3d_skeletons/
MaterialName_NoSkeletons(directory) ==
    LET n0 == RelPath(directory, Cwd)
        n1 == Replace(n0, "textures/", "")
        n2 == Replace(n1, "3d_objects/", "")
    IN "/global/" \o n2

\* main: the material name of a directory
MaterialName(directory) ==
    LET n0 == RelPath(directory, Cwd)
        n1 == Replace(n0, "textures/", "")
        n2 == Replace(n1, "3d_objects/", "")
        n3 == Replace(n2, "3d_skeletons/", "")
    IN "/global/" \o n3

\* the loop body with a refresh that removes the file and stops
LoopBody_RefreshOnlyRemoves(f, o, m, diffuse_texture) ==
    LET directory     == DirName(diffuse_texture)
        material_file == Join(directory, "ogre.material")
        material_name == MaterialName(directory)
    IN IF ~IsFile(f, material_file)
       THEN IF m = "find-missing"
            THEN [fs |-> f, out |-> Append(o, material_file)]
            ELSE IF m = "create-missing"
            THEN generate_material(f, o, directory, material_file,
                                   material_name)
            ELSE [fs |-> f, out |-> o]
       ELSE IF m = "refresh"
       THEN [fs |-> RemoveFile(f, material_file), out |-> o]
       ELSE IF m = "find-invalid"
       THEN IF ~is_valid(f, material_file, material_name)
            THEN [fs |-> f, out |-> Append(o, material_file)]
            ELSE [fs |-> f, out |-> o]
       ELSE [fs |-> f, out |-> o]

\* the loop body with a create-missing that also rewrites existing files
LoopBody_CreateAlways(f, o, m, diffuse_texture) ==
    LET directory     == DirName(diffuse_texture)
        material_file == Join(directory, "ogre.material")
        material_name == MaterialName(directory)
    IN IF ~IsFile(f, material_file)
       THEN IF m = "find-missing"
            THEN [fs |-> f, out |-> Append(o, material_file)]
            ELSE IF m = "create-missing"
            THEN generate_material(f, o, directory, material_file,
                                   material_name)
            ELSE [fs |-> f, out |-> o]
       ELSE IF m \in {"refresh", "create-missing"}
       THEN generate_material(RemoveFile(f, material_file), o, directory,
                              material_file, material_name)
       ELSE IF m = "find-invalid"
       THEN IF ~is_valid(f, material_file, material_name)
            THEN [fs |-> f, out |-> Append(o, material_file)]
            ELSE [fs |-> f, out |-> o]
       ELSE [fs |-> f, out |-> o]

\* the loop body with a find-missing that falls through to the generation
LoopBody_FindMissingCreates(f, o, m, diffuse_texture) ==
    LET directory     == DirName(diffuse_texture)
        material_file == Join(directory, "ogre.material")
        material_name == MaterialName(directory)
    IN IF ~IsFile(f, material_file)
       THEN IF m = "find-missing"
            THEN generate_material(f, Append(o, material_file), directory,
                                   material_file, material_name)
            ELSE IF m = "create-missing"
            THEN generate_material(f, o, directory, material_file,
                                   material_name)
            ELSE [fs |-> f, out |-> o]
       ELSE IF m = "refresh"
       THEN generate_material(RemoveFile(f, material_file), o, directory,
                              material_file, material_name)
       ELSE IF m = "find-invalid"
       THEN IF ~is_valid(f, material_file, material_name)
            THEN [fs |-> f, out |-> Append(o, material_file)]
            ELSE [fs |-> f, out |-> o]
       ELSE [fs |-> f, out |-> o]

\* main: the body of the loop over the diffuse textures, for one of them
LoopBody(f, o, m, diffuse_texture) ==
    LET directory     == DirName(diffuse_texture)
        material_file == Join(directory, "ogre.material")
        material_name == MaterialName(directory)
    IN IF ~IsFile(f, material_file)
       THEN IF m = "find-missing"
            THEN [fs |-> f, out |-> Append(o, material_file)]
            ELSE IF m = "create-missing"
            THEN generate_material(f, o, directory, material_file,
                                   material_name)
            ELSE [fs |-> f, out |-> o]
       ELSE IF m = "refresh"
       THEN generate_material(RemoveFile(f, material_file), o, directory,
                              material_file, material_name)
       ELSE IF m = "find-invalid"
       THEN IF ~is_valid(f, material_file, material_name)
            THEN [fs |-> f, out |-> Append(o, material_file)]
            ELSE [fs |-> f, out |-> o]
       ELSE [fs |-> f, out |-> o]

\* the scan matching any of the recognised textures instead of D.png
DiffuseTextures_AnyTexture(t, f) ==
    LET files(dirpath) ==
            {SubSeq(p, Len(dirpath) + 2, Len(p)) :
                p \in {q \in DOMAIN f : DirName(q) = dirpath}}
        matches(dirpath) == {n \in files(dirpath) :
                                n \in {"D.png", "N.png", "S.png"}}
        hit(dirpath) == matches(dirpath) # {}
        found == SelectSeq(t, hit)
    IN [i \in 1..Len(found) |-> Join(found[i], "D.png")]

\* main: os.walk and fnmatch.filter, the list of the diffuse textures
DiffuseTextures(t, f) ==
    LET files(dirpath) ==
            {SubSeq(p, Len(dirpath) + 2, Len(p)) :
                p \in {q \in DOMAIN f : DirName(q) = dirpath}}
        matches(dirpath) == {n \in files(dirpath) : n = "D.png"}
        hit(dirpath) == matches(dirpath) # {}
        found == SelectSeq(t, hit)
    IN [i \in 1..Len(found) |-> Join(found[i], "D.png")]

----------------------------------------------------------------------------
(* The asset trees the tool is run on                                      *)

\* The first bytes of a PNG file: signature, IHDR chunk with the given bit
\* depth (offset 24) and colour type (offset 25), cut to len bytes.
PngFile(len, depth, ct) ==
    SubSeq(<<137, 80, 78, 71, 13, 10, 26, 10, 0, 0, 0, 13, 73, 72, 68, 82,
             0, 0, 0, 4, 0, 0, 0, 4, depth, ct, 0, 0, 0, 120, 156>>, 1, len)

ColourTypes == {0, 2, 3, 4, 6}

BitDepths == {6, 8}

TextureKinds == {"none", "rgb", "rgba"}

ScriptKinds == {"none", "empty", "junk", "stale"}

DirConfigs == [D : TextureKinds, N : BOOLEAN, S : BOOLEAN, M : ScriptKinds]

FileNames == {"D.png", "N.png", "S.png", "ogre.material"}

\* An ogre.material as found before a run: hand-written or out of date
ScriptContent(kind) ==
    CASE kind = "empty" -> ""
      [] kind = "junk"  ->
            "// hand-written\rmaterial /global/other : /base/simple\n{\n}\n"
      [] kind = "stale" ->
            "// out of date\r\nmaterial /global/. : /base/old\r\n{\r\n}\r\n"
            \o "material /global/rock/01 : /base/old\n{\n}\n"

\* The file system holding, for the i-th directory of t, the files cfg[i] names
MakeFs(t, cfg) ==
    LET has(i, n) == CASE n = "D.png" -> cfg[i].D # "none"
                       [] n = "N.png" -> cfg[i].N
                       [] n = "S.png" -> cfg[i].S
                       [] n = "ogre.material" -> cfg[i].M # "none"
        content(i, n) ==
            CASE n = "D.png" -> IF cfg[i].D = "rgba"
                                THEN PngFile(HeaderLen, 8, RGBA)
                                ELSE PngFile(HeaderLen, 8, 2)
              [] n \in {"N.png", "S.png"} -> PngFile(HeaderLen, 8, 2)
              [] n = "ogre.material" -> ScriptContent(cfg[i].M)
        paths == {Join(t[i], n) : <<i, n>> \in
                    {x \in (1..Len(t)) \X FileNames : has(x[1], x[2])}}
    IN [p \in paths |->
          LET x == CHOOSE y \in (1..Len(t)) \X FileNames : Join(t[y[1]], y[2]) = p
          IN content(x[1], x[2])]

Segments == {"textures", "3d_objects", "3d_skeletons", "rock", "01",
             "text3d_objects", "ures", "a\rb"}

\* The relative directory paths of at most n segments
RECURSIVE RelPaths(_)
RelPaths(n) ==
    IF n = 1 THEN Segments
    ELSE RelPaths(n - 1)
         \cup {Join(p, g) : <<p, g>> \in RelPaths(n - 1) \X Segments}

InitRun ==
    /\ pc = "idle"
    /\ mode = "none"
    /\ queue = <<>>
    /\ out = <<>>
    /\ pre = fs
    /\ names = <<>>
    /\ generated = {}
    /\ lastGenerated = {}

\* The working directory and textures/rock/01 below it, each with any
\* combination of textures and material script
Init ==
    /\ tree = <<Cwd, Join(Cwd, "textures/rock/01")>>
    /\ \E cfg \in [1..2 -> DirConfigs] : fs = MakeFs(tree, cfg)
    /\ InitRun

\* One directory whose D.png is any cut of a PNG header, or missing
InitAlpha ==
    /\ tree = <<Join(Cwd, "textures/rock/01")>>
    /\ \/ fs = <<>>
       \/ \E len \in 0..MaxFileLen, depth \in BitDepths, ct \in ColourTypes :
            fs = [p \in {Join(tree[1], "D.png")} |-> PngFile(len, depth, ct)]
    /\ InitRun

\* One directory, at any relative path of at most MaxSegs segments
InitNames ==
    /\ \E p \in RelPaths(MaxSegs) : tree = <<Join(Cwd, p)>>
    /\ fs = [p \in {Join(tree[1], "D.png")} |-> PngFile(HeaderLen, 8, 2)]
    /\ InitRun

----------------------------------------------------------------------------
(* The run of the tool                                                     *)

\* main: the arguments are parsed and the tree is walked
Main(m) ==
    /\ pc \in {"idle", "done"}
    /\ pc' = "loop"
    /\ mode' = m
    /\ queue' = DiffuseTextures(tree, fs)
    /\ out' = <<>>
    /\ pre' = fs
    /\ names' = <<>>
    /\ generated' = {}
    /\ lastGenerated' = generated
    /\ UNCHANGED <<tree, fs>>

\* main: one iteration of the loop over the diffuse textures
Iterate ==
    /\ pc = "loop"
    /\ queue # <<>>
    /\ LET diffuse_texture == Head(queue)
           directory       == DirName(diffuse_texture)
           r               == LoopBody(fs, out, mode, diffuse_texture)
           wrote           == /\ Len(r.out) > Len(out)
                              /\ StartsWith(r.out[Len(r.out)],
                                            "---- Generating material file ")
       IN /\ fs' = r.fs
          /\ out' = r.out
          /\ names' = [d \in DOMAIN names \cup {directory} |->
                          IF d = directory THEN MaterialName(directory)
                          ELSE names[d]]
          /\ generated' = IF wrote
                          THEN generated \cup {Join(directory, "ogre.material")}
                          ELSE generated
    /\ queue' = Tail(queue)
    /\ UNCHANGED <<tree, pc, mode, pre, lastGenerated>>

\* main: the loop is over and the process exits
Finish ==
    /\ pc = "loop"
    /\ queue = <<>>
    /\ pc' = "done"
    /\ UNCHANGED <<tree, fs, mode, queue, out, pre, names, generated,
                   lastGenerated>>

Next ==
    \/ \E m \in modes : Main(m)
    \/ Iterate
    \/ Finish

Spec == Init /\ [][Next]_vars

SpecAlpha == InitAlpha /\ [][Next]_vars

SpecNames == InitNames /\ [][Next]_vars

----------------------------------------------------------------------------
(* Properties                                                              *)

ScanDirs == {tree[i] : i \in 1..Len(tree)}

MaterialFile(d) == Join(d, "ogre.material")

HasDiffuse(d) == Join(d, "D.png") \in DOMAIN fs

HasNormal(d) == Join(d, "N.png") \in DOMAIN fs

HasSpecular(d) == Join(d, "S.png") \in DOMAIN fs

\* D.png is there, has at least 26 bytes and byte 25 (counted from 0) is 6
HasAlpha(d) ==
    /\ Join(d, "D.png") \in DOMAIN fs
    /\ Len(fs[Join(d, "D.png")]) >= 26
    /\ fs[Join(d, "D.png")][26] = 6

Printed == {out[i] : i \in 1..Len(out)}

StripSubstrings == {"textures/", "3d_objects/", "3d_skeletons/"}

\* C1 (as claimed): after a refresh run every directory with a D.png has an
\* ogre.material holding the script of its current texture flags, whether
\* or not the file existed before the run.
C1_RefreshRegeneratesEverywhere ==
    (pc = "done" /\ mode = "refresh") =>
        \A d \in ScanDirs : HasDiffuse(d) =>
            /\ MaterialFile(d) \in DOMAIN fs
            /\ fs[MaterialFile(d)] = MaterialScript(fs, d, MaterialName(d))

\* C1 (amended): after a refresh run every directory with a D.png whose
\* ogre.material existed before the run has an ogre.material holding the
\* script of its current texture flags, whatever the file held before; a
\* directory whose ogre.material did not exist before the run still has none.
C1_RefreshRegeneratesExisting ==
    (pc = "done" /\ mode = "refresh") =>
        \A d \in ScanDirs : HasDiffuse(d) =>
            IF MaterialFile(d) \in DOMAIN pre
            THEN /\ MaterialFile(d) \in DOMAIN fs
                 /\ fs[MaterialFile(d)] = MaterialScript(fs, d, MaterialName(d))
                 /\ MaterialFile(d) \in generated
            ELSE /\ MaterialFile(d) \notin DOMAIN fs
                 /\ MaterialFile(d) \notin generated

C1_Witness ==
    /\ pc = "done" /\ mode = "refresh"
    /\ \E d \in ScanDirs :
          /\ HasDiffuse(d)
          /\ MaterialFile(d) \in DOMAIN pre
          /\ pre[MaterialFile(d)] = ScriptContent("junk")
          /\ fs[MaterialFile(d)] # pre[MaterialFile(d)]
    /\ \E d \in ScanDirs :
          HasDiffuse(d) /\ MaterialFile(d) \notin DOMAIN pre

\* C2: in a create-missing run a directory with a D.png and an existing
\* ogre.material is left alone: the file is still there with the content it
\* had before the run and no printed line names it; only files that did not
\* exist before the run are generated.
C2_CreateMissingKeepsExisting ==
    mode = "create-missing" =>
        /\ \A d \in ScanDirs :
              (HasDiffuse(d) /\ MaterialFile(d) \in DOMAIN pre) =>
                 /\ MaterialFile(d) \in DOMAIN fs
                 /\ fs[MaterialFile(d)] = pre[MaterialFile(d)]
                 /\ \A i \in 1..Len(out) : ~Contains(out[i], MaterialFile(d))
        /\ \A p \in generated : p \notin DOMAIN pre
        /\ pc = "done" =>
              \A d \in ScanDirs :
                 (HasDiffuse(d) /\ MaterialFile(d) \notin DOMAIN pre) =>
                     MaterialFile(d) \in generated

C2_Witness ==
    /\ pc = "done" /\ mode = "create-missing"
    /\ \E d \in ScanDirs :
          /\ d \in DOMAIN names
          /\ MaterialFile(d) \in DOMAIN pre
          /\ pre[MaterialFile(d)] = ScriptContent("junk")
    /\ generated # {}

\* C3: has_alpha_diffuse_map is true exactly when D.png is a file of at
\* least 26 bytes whose byte at offset 25 is 6, and false (without an error)
\* when the file is absent, shorter, or has another byte there; a generated
\* script is an alpha script exactly in that case.
C3_AlphaIffHeaderByte ==
    \A d \in ScanDirs :
        /\ has_alpha_diffuse_map(fs, d) \in BOOLEAN
        /\ has_alpha_diffuse_map(fs, d) <=> HasAlpha(d)
        /\ MaterialFile(d) \in generated =>
              (Contains(fs[MaterialFile(d)], "/nonculled/alpharejected")
                  <=> HasAlpha(d))

C3_Witness ==
    \E d \in ScanDirs :
        /\ HasDiffuse(d)
        /\ Len(fs[Join(d, "D.png")]) > 26
        /\ fs[Join(d, "D.png")][25] = 6
        /\ fs[Join(d, "D.png")][26] = 6
        /\ MaterialFile(d) \in generated
        /\ Contains(fs[MaterialFile(d)], "/nonculled/alpharejected")

\* C4: for each of the eight flag combinations the parent of the main block
\* is /base/normalmap/specular (normal and specular), /base/normalmap
\* (normal only) or /base/simple (no normal), followed by
\* /nonculled/alpharejected exactly when the diffuse texture has alpha.
C4_Parent(n, s, a) ==
    (CASE n /\ s  -> "/base/normalmap/specular"
       [] n /\ ~s -> "/base/normalmap"
       [] ~n      -> "/base/simple")
    \o (IF a THEN "/nonculled/alpharejected" ELSE "")

C4_ParentTable ==
    /\ \A n \in BOOLEAN, s \in BOOLEAN, a \in BOOLEAN :
          ParentMaterial(n, s, a) = C4_Parent(n, s, a)
    /\ \A d \in ScanDirs : MaterialFile(d) \in generated =>
          Contains(fs[MaterialFile(d)],
                   "material " \o MaterialName(d) \o " : "
                      \o C4_Parent(HasNormal(d), HasSpecular(d), HasAlpha(d))
                      \o "\n{\n")

C4_Witness ==
    \E d \in ScanDirs :
        /\ MaterialFile(d) \in generated
        /\ HasNormal(d) /\ ~HasSpecular(d) /\ HasAlpha(d)
        /\ Contains(fs[MaterialFile(d)],
                    " : /base/normalmap/nonculled/alpharejected\n")

\* C5: a generated script always has the base import and a main block named
\* by the material name with a DiffuseMap alias to <reldir>/D.png; it has the
\* DepthShadowmap import, the <name>/shadowcaster block and the
\* shadow_caster_material setting exactly when the diffuse texture has
\* alpha, the NormalHeightMap alias exactly when there is a normal map and
\* the SpecularMap alias exactly when there is a specular map; the text is
\* the one determined by the flags, the name and the relative path.
C5_ScriptContent ==
    \A d \in ScanDirs : MaterialFile(d) \in generated =>
        LET script == fs[MaterialFile(d)]
            name   == MaterialName(d)
            reldir == RelPath(d, Cwd)
        IN /\ StartsWith(script,
                 "import * from \"resources/ogre/scripts/materials/base.material\"\n")
           /\ Contains(script, "material " \o name \o " : ")
           /\ Contains(script,
                 "    set_texture_alias DiffuseMap " \o reldir \o "/D.png\n")
           /\ Contains(script,
                 "import * from \"resources/ogre/scripts/programs/DepthShadowmap.material\"\n")
                 <=> HasAlpha(d)
           /\ Contains(script, "material " \o name \o "/shadowcaster : ")
                 <=> HasAlpha(d)
           /\ Contains(script,
                 "    set $shadow_caster_material " \o name \o "/shadowcaster\n")
                 <=> HasAlpha(d)
           /\ Contains(script,
                 "    set_texture_alias NormalHeightMap " \o reldir \o "/N.png\n")
                 <=> HasNormal(d)
           /\ Contains(script, "NormalHeightMap") <=> HasNormal(d)
           /\ Contains(script,
                 "    set_texture_alias SpecularMap " \o reldir \o "/S.png\n")
                 <=> HasSpecular(d)
           /\ Contains(script, "SpecularMap") <=> HasSpecular(d)
           /\ script = Substitute(
                 MaterialTemplate(HasNormal(d), HasSpecular(d), HasAlpha(d)),
                 [name |-> name, reldir |-> reldir,
                  parent |-> C4_Parent(HasNormal(d), HasSpecular(d),
                                       HasAlpha(d))])

C5_Witness ==
    /\ MaterialFile(Cwd) \in generated
    /\ ~HasNormal(Cwd) /\ HasSpecular(Cwd) /\ HasAlpha(Cwd)
    /\ Contains(fs[MaterialFile(Cwd)], "material /global/./shadowcaster : ")
    /\ Contains(fs[MaterialFile(Cwd)], "SpecularMap ./S.png")

\* some occurrence of name n in the text c, read with "\r\n" and "\r" as
\* "\n", lies within one line
C6_NameOnALine(c, n) ==
    LET t == UniversalNewlines(c)
    IN \E i \in 1..(Len(t) - Len(n) + 1) :
          /\ SubSeq(t, i, i + Len(n) - 1) = n
          /\ \A k \in i..(i + Len(n) - 2) : SubSeq(t, k, k) # "\n"

\* C6: a find-invalid run prints the ogre.material path of exactly the
\* directories that have a D.png and an ogre.material none of whose lines
\* (as read in text mode) contains the directory's material name, each once.
C6_FindInvalidPrints ==
    (pc = "done" /\ mode = "find-invalid") =>
        LET invalid == {d \in ScanDirs :
                           /\ HasDiffuse(d)
                           /\ MaterialFile(d) \in DOMAIN fs
                           /\ ~C6_NameOnALine(fs[MaterialFile(d)],
                                              MaterialName(d))}
        IN /\ Printed = {MaterialFile(d) : d \in invalid}
           /\ Len(out) = Cardinality(invalid)

C6_Witness ==
    /\ pc = "done" /\ mode = "find-invalid"
    /\ \E d \in ScanDirs : MaterialFile(d) \in Printed
    /\ \E d \in ScanDirs :
          /\ d \in DOMAIN names
          /\ MaterialFile(d) \in DOMAIN fs
          /\ MaterialFile(d) \notin Printed

\* C7: in every mode a directory without a D.png is never visited: no
\* printed line names its ogre.material, and that file is neither created,
\* changed nor deleted, whatever else the directory holds.
C7_NoDiffuseNotVisited ==
    \A d \in ScanDirs : ~HasDiffuse(d) =>
        /\ d \notin DOMAIN names
        /\ \A i \in 1..Len(out) : ~Contains(out[i], MaterialFile(d))
        /\ MaterialFile(d) \notin generated
        /\ MaterialFile(d) \in DOMAIN fs <=> MaterialFile(d) \in DOMAIN pre
        /\ MaterialFile(d) \in DOMAIN fs =>
              fs[MaterialFile(d)] = pre[MaterialFile(d)]

C7_Witness ==
    /\ pc = "done" /\ mode = "refresh"
    /\ generated # {}
    /\ \E d \in ScanDirs :
          /\ ~HasDiffuse(d)
          /\ HasNormal(d) /\ HasSpecular(d)
          /\ MaterialFile(d) \in DOMAIN fs
          /\ fs[MaterialFile(d)] = ScriptContent("junk")

\* C8: find-missing and find-invalid leave the whole file system as it was;
\* in every mode every file other than an ogre.material is still there with
\* the content it had before the run, and no such file is created.
C8_OnlyMaterialFileWritten ==
    /\ mode \in {"find-missing", "find-invalid"} => fs = pre
    /\ \A p \in DOMAIN pre \cup DOMAIN fs :
          ~(\E d \in ScanDirs : p = MaterialFile(d)) =>
              /\ p \in DOMAIN pre
              /\ p \in DOMAIN fs
              /\ fs[p] = pre[p]

C8_Witness ==
    /\ pc = "done" /\ mode = "find-missing"
    /\ out # <<>>
    /\ lastGenerated # {}
    /\ \E d \in ScanDirs : HasDiffuse(d) /\ HasNormal(d) /\ HasSpecular(d)

\* C9 (as claimed): the part of the material name after /global/ contains
\* none of textures/, 3d_objects/ and 3d_skeletons/.
C9_NoStripSubstringLeft ==
    \A d \in DOMAIN names :
        /\ StartsWith(names[d], "/global/")
        /\ \A x \in StripSubstrings :
              ~Contains(SubSeq(names[d], 9, Len(names[d])), x)

\* every occurrence of a stripped substring in p is a whole path component
C9_WholeComponents(p) ==
    \A x \in StripSubstrings : \A i \in 1..(Len(p) - Len(x) + 1) :
        SubSeq(p, i, i + Len(x) - 1) = x =>
            (i = 1 \/ SubSeq(p, i - 1, i - 1) = "/")

\* C9 (amended): the material name is /global/ followed by the relative path
\* after one left-to-right removal pass for textures/, then 3d_objects/,
\* then 3d_skeletons/ (textures/rock/01 gives /global/rock/01); when every
\* occurrence of these substrings in the path is a whole path component, the
\* part after /global/ contains none of them.
C9_NameDerivation ==
    \A d \in DOMAIN names :
        LET rel  == RelPath(d, Cwd)
            rest == SubSeq(names[d], 9, Len(names[d]))
        IN /\ StartsWith(names[d], "/global/")
           /\ rest = Replace(Replace(Replace(rel, "textures/", ""),
                                     "3d_objects/", ""), "3d_skeletons/", "")
           /\ rel = "textures/rock/01" => names[d] = "/global/rock/01"
           /\ C9_WholeComponents(rel) =>
                 \A x \in StripSubstrings : ~Contains(rest, x)

C9_Witness ==
    \E d \in DOMAIN names :
        /\ RelPath(d, Cwd) = "3d_skeletons/textures/rock"
        /\ names[d] = "/global/rock"

\* C10: a file just written by generate_material is valid for the material
\* name it was generated with, so a find-invalid run right after a
\* create-missing or refresh run prints none of the files that run generated.
C10_GeneratedIsValid ==
    /\ \A d \in ScanDirs : MaterialFile(d) \in generated =>
          is_valid(fs, MaterialFile(d), MaterialName(d))
    /\ mode = "find-invalid" => \A p \in lastGenerated : p \notin Printed

====
